---- MODULE Spec2Model ----
(***************************************************************************)
(* Model of the Kinesis dashboard of src/123.py: the polling thread        *)
(* poll_kinesis (startup, polling cycles over the shard iterators, record  *)
(* decoding and ingestion), the SlidingWindowAnalyzer store (a deque with  *)
(* maxlen) and one Flask request thread that scans the store and reads the *)
(* module globals while the polling thread runs.                           *)
(* The query methods of the analyzer are also operators, applied by a       *)
(* caller that adds messages and calls them while the clock runs.          *)
(*                                                                         *)
(* Time is a discrete clock `now`; one tick is one minute, the unit of the *)
(* `minutes` argument of the window queries.                               *)
(***************************************************************************)
EXTENDS Integers, Sequences, FiniteSets, TLC

\* ---------------------------------------------------------------- bounds
\* Records the stream holds per shard.
MaxRecs == 2
\* Last instant of the clock.
MaxTime == 1
\* Largest `minutes` argument a request passes.
MaxMinutes == 1
\* deque(maxlen=10000) of src/123.py:18, scaled down so that the model
\* can fill the store and overflow it.
Capacity == 2
\* Largest `minutes` argument of a call made on the analyzer directly.
MaxWindow == 2
\* add_message calls made on the analyzer directly.
MaxAdds == 2

\* ------------------------------------------------------ program constants
\* get_records(..., Limit=100)
Limit == 100
\* The shards describe_stream enumerates, in the order of the Shards list.
ShardIds == <<"shardId-0", "shardId-1">>
Shards == {ShardIds[i] : i \in 1..Len(ShardIds)}

\* Python's None where an iterator is expected.
None == [pos |-> -1, tok |-> -1]

\* Record payloads (record["Data"] after decoding).
Bodies == {"not json", "{}", "{text: great}"}

\* json.loads and parsed.get("text", ""): the text of a payload, "" when the
\* object has no text, and a JSONDecodeError for a payload that is not JSON.
JsonDecodeError == "JSONDecodeError"
ParseText(body) ==
    CASE body = "{text: great}" -> "great"
      [] body = "{text: bad}"   -> "bad"
      [] body = "{}"            -> ""
      [] OTHER                  -> JsonDecodeError

\* TextBlob polarity of a text, in tenths (external classifier).
Polarity(text) ==
    CASE text = "great" -> 8
      [] text = "bad"   -> -7
      [] OTHER          -> 0

get_sentiment(text) ==
    LET polarity == Polarity(text)
    IN  IF polarity > 1 THEN "Positive"
        ELSE IF polarity < -1 THEN "Negative"
        ELSE "Neutral"

VARIABLES
    now,                \* datetime.now(), in minutes
    pc,                 \* position of the polling thread
    status_message,     \* global status_message
    total_reviews,      \* global total_reviews
    reviews,            \* global reviews (history list), as record ids
    all_messages,       \* window_analyzer.all_messages (the deque)
    deque_state,        \* the deque's mutation counter (CPython deque->state)
    shard_iterators,    \* dict shard id -> iterator; its domain is the active set
    todo,               \* rest of list(shard_iterators.items()) in this cycle
    records,            \* rest of the response's Records being processed
    stream,             \* the environment: what the Kinesis stream can answer
    startup_in,         \* history: what the startup calls answered
    last_pull,          \* history: per shard, the last get_records call
    since,              \* history: per active shard, the calls made for each shard
                        \* since its own last call
    pulled,             \* history: shards pulled so far in this cycle
    cycle_start,        \* history: the active set when this cycle began
    delivered,          \* history: ids of the valid records contained in responses
    accepted,           \* history: ids of the valid records given to the record loop
    last_dropped,       \* history: id of the last record dropped
    stored,             \* history: ids passed to add_message, in order
    rpc,                \* position of the request thread
    minutes,            \* the request's window size
    cutoff_time,        \* get_messages_in_window: cutoff_time
    it_state,           \* deque iterator: deque state when it was created
    it_index,           \* deque iterator: next index
    it_counter,         \* deque iterator: items left
    result,             \* the list the comprehension builds
    seen,               \* history: what the request read
    adds,               \* history: add_message calls made on the analyzer directly
    answer              \* what the last direct call of a query method returned,
                        \* and history: what the same call returned right before

\* the module globals and the analyzer's store
globalVars == <<status_message, total_reviews, reviews, all_messages, deque_state, stored>>
\* the locals of poll_kinesis
loopVars == <<pc, shard_iterators, todo, records>>
envVars == <<stream, startup_in>>
pullVars == <<last_pull, since, pulled, cycle_start, delivered, accepted>>
pollerVars == <<globalVars, loopVars, envVars, pullVars, last_dropped>>
readerVars == <<rpc, minutes, cutoff_time, it_state, it_index, it_counter, result, seen>>
\* a caller of the analyzer's methods
callVars == <<adds, answer>>
vars == <<now, pollerVars, readerVars, callVars>>

\* ------------------------------------------------------------- helpers
Range(s) == {s[i] : i \in 1..Len(s)}
Min(a, b) == IF a < b THEN a ELSE b

RecId(rec) == <<rec.shard, rec.seq>>
IsValid(rec) == ParseText(rec.body) \notin {JsonDecodeError, ""}
ValidIds(recs) == {RecId(recs[i]) : i \in {j \in 1..Len(recs) : IsValid(recs[j])}}

\* Shard iterators are opaque tokens: a position in the shard plus a tag that
\* changes with every response, so that a new iterator differs from the old
\* one even when the response held no record.
TrimHorizon == [pos |-> 0, tok |-> 0]
NextIterator(it, k) == [pos |-> it.pos + k, tok |-> 1 - it.tok]

\* The dict's items in insertion order (the order of the Shards list).
RECURSIVE ItemsFrom(_, _)
ItemsFrom(d, i) ==
    IF i > Len(ShardIds) THEN <<>>
    ELSE IF ShardIds[i] \in DOMAIN d
         THEN <<<<ShardIds[i], d[ShardIds[i]]>>>> \o ItemsFrom(d, i + 1)
         ELSE ItemsFrom(d, i + 1)
\* Mutation: the list holds every item twice.
Items_Twice(d) == ItemsFrom(d, 1) \o ItemsFrom(d, 1)

\* list(shard_iterators.items()): the items in the order of insertion
Items(d) == ItemsFrom(d, 1)

\* del shard_iterators[shard_id]
DictDel(d, k) == [x \in (DOMAIN d) \ {k} |-> d[x]]
\* shard_iterators[shard_id] = new_iterator
DictSet(d, k, v) == [x \in (DOMAIN d) \cup {k} |-> IF x = k THEN v ELSE d[x]]

EmptyDict == [x \in {} |-> None]

\* No get_records call on the shard yet.
NoPull == [iterator |-> None, outcome |-> "never", next |-> None]
\* No get_records call was made for any shard.
NoCalls == [s \in Shards |-> 0]
NoRecord == <<"", 0>>
\* poll_kinesis has not run its startup yet.
NotStarted == [creds |-> FALSE, describe |-> "not called", shards |-> <<>>, got |-> {}]
\* The request has read nothing yet.
NothingSeen == [at |-> 0, epoch0 |-> 0, nstored |-> 0, epoch1 |-> 0, total |-> 0,
                nreviews |-> 0, status |-> <<>>]
\* No query method has been called since the last add_message.
NoRate == [raised |-> FALSE, num |-> 0, den |-> 1]
NoStats == [positive |-> 0, negative |-> 0, neutral |-> 0, total |-> 0]
\* No call of get_sentiment_stats with the same argument came right before.
NoBefore == [asked |-> FALSE, at |-> 0, stats |-> NoStats]
NoAnswer == [op |-> "none", minutes |-> 0, top_n |-> 0, at |-> 0, window |-> <<>>,
             stats |-> NoStats, rate |-> NoRate, top |-> <<>>, before |-> NoBefore]

\* ------------------------------------------------------------- status
Starting == <<"Starting up...">>
Connected == <<"Connected - Listening for records from all shards...">>
Exhausted == <<"All shards exhausted">>
Active(n, t, sentiment) == <<"Active - Records:", n, "Last:", t, "Sentiment:", sentiment>>
CredentialsError == <<"AWS Credentials Error">>
StreamStatus(stream_status) == <<"Stream status:", stream_status>>
StreamNotFound == <<"Stream 'review-stream' not found">>
DescribeError == <<"Error describing stream">>
NoShards == <<"No shards found in stream">>
NoIterators == <<"No shard iterators obtained">>
CriticalError == <<"Critical error">>

\* --------------------------------------------------------------- Init
\* What the stream can hold and do: any payload, and get_records may raise.
AnyStream == [shards |-> ShardIds, bodies |-> Bodies, faults |-> TRUE]
\* A stream of one shard, of well-formed reviews, whose get_records calls all
\* succeed.
GoodStream == [shards |-> <<"shardId-0">>, bodies |-> {"{text: great}"}, faults |-> FALSE]

InitWith(st) ==
    /\ stream = st
    /\ now = 0
    /\ pc = "start"
    /\ status_message = Starting
    /\ total_reviews = 0
    /\ reviews = <<>>
    /\ all_messages = <<>>
    /\ deque_state = 0
    /\ shard_iterators = EmptyDict
    /\ todo = <<>>
    /\ records = <<>>
    /\ startup_in = NotStarted
    /\ last_pull = [s \in Shards |-> NoPull]
    /\ since = [s \in Shards |-> NoCalls]
    /\ pulled = {}
    /\ cycle_start = {}
    /\ delivered = {}
    /\ accepted = {}
    /\ last_dropped = NoRecord
    /\ stored = <<>>
    /\ rpc = "idle"
    /\ minutes = 0
    /\ cutoff_time = 0
    /\ it_state = 0
    /\ it_index = 0
    /\ it_counter = 0
    /\ result = <<>>
    /\ seen = NothingSeen
    /\ adds = 0
    /\ answer = NoAnswer

\* A stream of two shards, of well-formed reviews, whose get_records calls all
\* succeed, some of them late.
SlowStream == [shards |-> ShardIds, bodies |-> {"{text: great}"}, faults |-> FALSE]

Init == InitWith(AnyStream)
InitSlow == InitWith(SlowStream)
InitServe == InitWith(GoodStream)

\* ------------------------------------------------------------ startup
\* What the startup calls can answer: sts get_caller_identity, describe_stream
\* (a stream status, or the error it raises), the Shards list and the shards
\* for which get_shard_iterator succeeds.
DescribeAnswers == {"ACTIVE", "CREATING", "ResourceNotFoundException",
                    "ClientError", "Exception"}
StartupInputs ==
    {[creds |-> c, describe |-> d, shards |-> sh, got |-> g] :
        c \in BOOLEAN, d \in DescribeAnswers, sh \in {<<>>, stream.shards},
        g \in SUBSET Shards}

\* The shard_iterators dict built by the loop of lines 469-482.
IteratorsObtained(in) ==
    [s \in Range(in.shards) \cap in.got |-> TrimHorizon]

\* Mutation: the stream status is not checked.
StartupResult_AnyStatus(in) ==
    IF ~in.creds
        THEN [status |-> CredentialsError, iterators |-> EmptyDict, pc |-> "returned"]
    ELSE IF in.describe = "ResourceNotFoundException"
        THEN [status |-> StreamNotFound, iterators |-> EmptyDict, pc |-> "returned"]
    ELSE IF in.describe = "ClientError"
        THEN [status |-> DescribeError, iterators |-> EmptyDict, pc |-> "returned"]
    ELSE IF in.describe = "Exception"
        THEN [status |-> CriticalError, iterators |-> EmptyDict, pc |-> "returned"]
    ELSE IF in.shards = <<>>
        THEN [status |-> NoShards, iterators |-> EmptyDict, pc |-> "returned"]
    ELSE IF DOMAIN IteratorsObtained(in) = {}
        THEN [status |-> NoIterators, iterators |-> EmptyDict, pc |-> "returned"]
    ELSE [status |-> Connected, iterators |-> IteratorsObtained(in), pc |-> "loop"]

\* poll_kinesis up to the polling loop: the status it leaves, the iterators
\* it holds and whether it goes on to poll.
StartupResult(in) ==
    IF ~in.creds
        THEN [status |-> CredentialsError, iterators |-> EmptyDict, pc |-> "returned"]
    ELSE IF in.describe = "ResourceNotFoundException"
        THEN [status |-> StreamNotFound, iterators |-> EmptyDict, pc |-> "returned"]
    ELSE IF in.describe = "ClientError"
        THEN [status |-> DescribeError, iterators |-> EmptyDict, pc |-> "returned"]
    ELSE IF in.describe = "Exception"
        THEN [status |-> CriticalError, iterators |-> EmptyDict, pc |-> "returned"]
    ELSE IF in.describe # "ACTIVE"
        THEN [status |-> StreamStatus(in.describe), iterators |-> EmptyDict,
              pc |-> "returned"]
    ELSE IF in.shards = <<>>
        THEN [status |-> NoShards, iterators |-> EmptyDict, pc |-> "returned"]
    ELSE IF DOMAIN IteratorsObtained(in) = {}
        THEN [status |-> NoIterators, iterators |-> EmptyDict, pc |-> "returned"]
    ELSE [status |-> Connected, iterators |-> IteratorsObtained(in), pc |-> "loop"]

Startup ==
    /\ pc = "start"
    /\ \E in \in StartupInputs :
        LET r == StartupResult(in)
        IN  /\ startup_in' = in
            /\ status_message' = r.status
            /\ shard_iterators' = r.iterators
            /\ pc' = r.pc
    /\ UNCHANGED <<now, total_reviews, reviews, all_messages, deque_state, stored, todo,
                   records, stream, pullVars, last_dropped, readerVars, callVars>>

\* ------------------------------------------------------ polling cycle
\* while True: for shard_id, shard_iterator in list(shard_iterators.items())
\* (the time.sleep(2) that ends a cycle is the wait at "loop")
CycleStart ==
    /\ pc = "loop"
    /\ todo' = Items(shard_iterators)
    /\ pulled' = {}
    /\ cycle_start' = DOMAIN shard_iterators
    /\ pc' = "shards"
    /\ UNCHANGED <<now, globalVars, shard_iterators, records, envVars, last_pull, since,
                   delivered, accepted, last_dropped, readerVars, callVars>>

\* What get_records can answer for an iterator of a shard: up to Limit records
\* from the iterator's position on, with a new iterator or without one.
RecordsAt(shard_id, it, bodies) ==
    [i \in 1..Len(bodies) |-> [shard |-> shard_id, seq |-> it.pos + i, body |-> bodies[i]]]
Responses(shard_id, it) ==
    UNION {{[Records |-> RecordsAt(shard_id, it, bodies), NextShardIterator |-> n] :
               n \in {None, NextIterator(it, Len(bodies))}} :
           bodies \in UNION {[1..k -> stream.bodies] :
                                k \in 0..Min(Limit, MaxRecs - it.pos)}}

\* The calls counted after one for shard_id: none since its own last call, one
\* more (counted up to two) for every other shard that is active.
SinceAfterCall(shard_id) ==
    [s \in Shards |->
        IF s = shard_id THEN NoCalls
        ELSE IF s \in DOMAIN shard_iterators
        THEN [since[s] EXCEPT ![shard_id] = Min(@ + 1, 2)]
        ELSE since[s]]

\* Mutation: a failed get_records drops the shard.
OnPullError_Drop(iters, shard_id) == DictDel(iters, shard_id)

\* except Exception (line 577): continue
OnPullError(iters, shard_id) == iters

\* Mutation: the new iterator is not stored.
AfterResponse_Stale(iters, shard_id, new_iterator) ==
    IF new_iterator # None THEN iters ELSE DictDel(iters, shard_id)

\* lines 508-514: keep the new iterator, or drop the shard
AfterResponse(iters, shard_id, new_iterator) ==
    IF new_iterator # None
    THEN DictSet(iters, shard_id, new_iterator)
    ELSE DictDel(iters, shard_id)

\* Mutation: the records of a response are taken last first.
RecordsToProcess_Reversed(records_, new_iterator) ==
    IF new_iterator # None
    THEN [i \in 1..Len(records_) |-> records_[Len(records_) + 1 - i]]
    ELSE <<>>

\* lines 509-516: the records the record loop gets (none after `continue`)
RecordsToProcess(records_, new_iterator) ==
    IF new_iterator # None THEN records_ ELSE <<>>

\* for record in records: ...; an empty list goes on to the next shard
NextPc(recs) == IF recs = <<>> THEN "shards" ELSE "records"

Outcome(records_, new_iterator) ==
    IF new_iterator = None THEN "exhausted"
    ELSE IF records_ = <<>> THEN "empty" ELSE "records"

\* get_records raises
PullError ==
    /\ pc = "shards"
    /\ todo # <<>>
    /\ stream.faults
    /\ LET shard_id == Head(todo)[1]
           shard_iterator == Head(todo)[2]
       IN  /\ shard_iterator # None
           /\ shard_iterators' = OnPullError(shard_iterators, shard_id)
           /\ last_pull' = [last_pull EXCEPT ![shard_id] =
                  [iterator |-> shard_iterator, outcome |-> "error", next |-> None]]
           /\ pulled' = pulled \cup {shard_id}
           /\ since' = SinceAfterCall(shard_id)
    /\ todo' = Tail(todo)
    /\ UNCHANGED <<now, globalVars, pc, records, envVars, cycle_start, delivered,
                   accepted, last_dropped, readerVars, callVars>>

\* lines 505-516 and the bookkeeping of a get_records call that answered
HandleResponse ==
    /\ todo # <<>>
    /\ LET shard_id == Head(todo)[1]
           shard_iterator == Head(todo)[2]
       IN  /\ shard_iterator # None
           /\ \E response \in Responses(shard_id, shard_iterator) :
               LET new_iterator == response.NextShardIterator
                   recs == RecordsToProcess(response.Records, new_iterator)
               IN  /\ shard_iterators' =
                          AfterResponse(shard_iterators, shard_id, new_iterator)
                   /\ records' = recs
                   /\ pc' = NextPc(recs)
                   /\ delivered' = delivered \cup ValidIds(response.Records)
                   /\ accepted' = accepted \cup ValidIds(recs)
                   /\ last_pull' = [last_pull EXCEPT ![shard_id] =
                          [iterator |-> shard_iterator,
                           outcome |-> Outcome(response.Records, new_iterator),
                           next |-> new_iterator]]
                   /\ pulled' = pulled \cup {shard_id}
                   /\ since' = SinceAfterCall(shard_id)
    /\ todo' = Tail(todo)
    /\ UNCHANGED <<now, globalVars, envVars, cycle_start, last_dropped, readerVars, callVars>>

\* get_records answers
Pull ==
    /\ pc = "shards"
    /\ HandleResponse

\* client.get_records(...) is called and has not returned: the thread waits in
\* the call
PullCall ==
    /\ pc = "shards"
    /\ todo # <<>>
    /\ Head(todo)[2] # None
    /\ pc' = "waiting"
    /\ UNCHANGED <<now, globalVars, shard_iterators, todo, records, envVars, pullVars,
                   last_dropped, readerVars, callVars>>

\* the call returns its response
PullReturn ==
    /\ pc = "waiting"
    /\ HandleResponse

\* Mutation: a bad record ends the processing of its batch.
AfterBadRecord_Abort(recs) == <<>>

\* --------------------------------------------------- record processing
\* What is left of the batch after a record that raised or had no text
\* (the except clauses of lines 569 and 573 and the else of line 566).
AfterBadRecord(recs) == Tail(recs)

\* A record that does not parse, or has no text: logged, nothing else.
DropRecord ==
    /\ pc = "records"
    /\ ~IsValid(Head(records))
    /\ records' = AfterBadRecord(records)
    /\ last_dropped' = RecId(Head(records))
    /\ pc' = NextPc(records')
    /\ UNCHANGED <<now, globalVars, shard_iterators, todo, envVars, pullVars, readerVars, callVars>>

\* lines 545-558: classify, build review_obj, reviews.append(review_obj)
AppendReview ==
    /\ pc = "records"
    /\ IsValid(Head(records))
    /\ reviews' = Append(reviews, RecId(Head(records)))
    /\ pc' = "add"
    /\ UNCHANGED <<now, status_message, total_reviews, all_messages, deque_state, stored,
                   shard_iterators, todo, records, envVars, pullVars, last_dropped,
                   readerVars, callVars>>

\* Mutation: a deque without maxlen.
DequeAppend_Unbounded(dq, x) == Append(dq, x)

\* Mutation: the append stamps the stored events again.
DequeAppend_Restamp(dq, x) ==
    LET kept == IF Len(dq) >= Capacity THEN Tail(dq) ELSE dq
    IN  Append([i \in 1..Len(kept) |->
                   [kept[i] EXCEPT !.actual_timestamp = x.actual_timestamp]], x)

\* Mutation: appendleft for append.
DequeAppend_Left(dq, x) ==
    IF Len(dq) >= Capacity THEN <<x>> \o SubSeq(dq, 1, Len(dq) - 1) ELSE <<x>> \o dq

\* deque(maxlen=...).append: the oldest item goes when the deque is full
DequeAppend(dq, x) ==
    IF Len(dq) >= Capacity THEN Tail(dq) \o <<x>> ELSE Append(dq, x)
\* the deque's state counter: one step per append, one more for the eviction
DequeStateAfter(dq, st) ==
    IF Len(dq) >= Capacity THEN st + 2 ELSE st + 1

review_obj(rec, t) ==
    LET review_text == ParseText(rec.body)
    IN  [id |-> RecId(rec), full_text |-> review_text,
         sentiment |-> get_sentiment(review_text), actual_timestamp |-> t]

\* window_analyzer.add_message(review_obj)
AddMessage ==
    /\ pc = "add"
    /\ all_messages' = DequeAppend(all_messages, review_obj(Head(records), now))
    /\ deque_state' = DequeStateAfter(all_messages, deque_state)
    /\ stored' = Append(stored, RecId(Head(records)))
    /\ pc' = "count"
    /\ UNCHANGED <<now, status_message, total_reviews, reviews, shard_iterators, todo,
                   records, envVars, pullVars, last_dropped, readerVars, callVars>>

\* total_reviews += 1
CountReview ==
    /\ pc = "count"
    /\ total_reviews' = total_reviews + 1
    /\ pc' = "status"
    /\ UNCHANGED <<now, status_message, reviews, all_messages, deque_state, stored,
                   shard_iterators, todo, records, envVars, pullVars, last_dropped,
                   readerVars, callVars>>

\* status_message = f"Active - Records: ..." and on to the next record
SetStatus ==
    /\ pc = "status"
    /\ status_message' =
          Active(total_reviews, now, get_sentiment(ParseText(Head(records).body)))
    /\ records' = Tail(records)
    /\ pc' = NextPc(records')
    /\ UNCHANGED <<now, total_reviews, reviews, all_messages, deque_state, stored,
                   shard_iterators, todo, envVars, pullVars, last_dropped, readerVars, callVars>>

\* Mutation: the loop goes on without iterators.
LoopEnds_Never(iters) == FALSE

\* ------------------------------------------------------- end of cycle
\* lines 591-594: no iterator left ends the loop
LoopEnds(iters) == DOMAIN iters = {}

\* (lines 582-588 only count the cycles without records and print)
EndCycle ==
    /\ pc = "shards"
    /\ todo = <<>>
    /\ IF LoopEnds(shard_iterators)
       THEN /\ status_message' = Exhausted
            /\ pc' = "done"
       ELSE /\ pc' = "loop"
            /\ UNCHANGED status_message
    /\ UNCHANGED <<now, total_reviews, reviews, all_messages, deque_state, stored,
                   shard_iterators, todo, records, envVars, pullVars, last_dropped,
                   readerVars, callVars>>

\* -------------------------------------------------------------- clock
Tick ==
    /\ now < MaxTime
    /\ now' = now + 1
    /\ UNCHANGED <<pollerVars, readerVars, callVars>>

\* ----------------------------------------------------- request thread
\* An ingestion is under way from reviews.append to the status update.
Ingesting == pc \in {"add", "count", "status"}
\* Counts the ingestions begun and ended: odd while one is under way.
Epoch == 2 * Len(reviews) - (IF Ingesting THEN 1 ELSE 0)

\* Mutation: >= for >.
InWindow_Inclusive(msg, cutoff) == msg.actual_timestamp >= cutoff

\* msg.get('actual_timestamp', datetime.now()) > cutoff_time
InWindow(msg, cutoff) == msg.actual_timestamp > cutoff

\* get_messages_in_window(minutes): the cutoff and the deque iterator of the
\* list comprehension
Request ==
    /\ rpc = "idle"
    /\ \E m \in 0..MaxMinutes :
        /\ minutes' = m
        /\ cutoff_time' = now - m
    /\ it_state' = deque_state
    /\ it_counter' = Len(all_messages)
    /\ it_index' = 1
    /\ result' = <<>>
    /\ seen' = [NothingSeen EXCEPT !.at = now, !.epoch0 = Epoch, !.nstored = Len(stored)]
    /\ rpc' = "scan"
    /\ UNCHANGED <<now, callVars, pollerVars>>

\* next() on the deque iterator: RuntimeError when the deque changed since the
\* iterator was made, the end when no item is left, else the next item
ScanNext ==
    /\ rpc = "scan"
    /\ IF deque_state # it_state
       THEN /\ rpc' = "error"
            /\ it_counter' = 0
            /\ UNCHANGED <<it_index, result>>
       ELSE IF it_counter = 0
       THEN /\ rpc' = "scanned"
            /\ UNCHANGED <<it_index, it_counter, result>>
       ELSE /\ result' = IF InWindow(all_messages[it_index], cutoff_time)
                         THEN Append(result, all_messages[it_index])
                         ELSE result
            /\ it_index' = it_index + 1
            /\ it_counter' = it_counter - 1
            /\ UNCHANGED rpc
    /\ UNCHANGED <<now, callVars, pollerVars, minutes, cutoff_time, it_state, seen>>

\* index(): reviews, status_message and total_reviews, read for the template
ReadGlobals ==
    /\ rpc = "scanned"
    /\ seen' = [seen EXCEPT !.epoch1 = Epoch, !.total = total_reviews,
                            !.nreviews = Len(reviews), !.status = status_message]
    /\ rpc' = "done"
    /\ UNCHANGED <<now, callVars, pollerVars, minutes, cutoff_time, it_state, it_index,
                   it_counter, result>>

\* the response is sent (a 500 after an exception)
Return ==
    /\ rpc \in {"done", "error"}
    /\ rpc' = "idle"
    /\ minutes' = 0
    /\ cutoff_time' = 0
    /\ it_state' = 0
    /\ it_index' = 0
    /\ it_counter' = 0
    /\ result' = <<>>
    /\ seen' = NothingSeen
    /\ UNCHANGED <<now, callVars, pollerVars>>

\* ------------------------------------------- SlidingWindowAnalyzer
\* dict.get(key, default)
Get(d, key, default) == IF key \in DOMAIN d THEN d[key] ELSE default

\* Texts are sequences of characters.
Uppercase == <<"A", "B", "C", "D", "E", "F", "G", "H", "I", "J", "K", "L", "M",
               "N", "O", "P", "Q", "R", "S", "T", "U", "V", "W", "X", "Y", "Z">>
Lowercase == <<"a", "b", "c", "d", "e", "f", "g", "h", "i", "j", "k", "l", "m",
               "n", "o", "p", "q", "r", "s", "t", "u", "v", "w", "x", "y", "z">>
Digits == {"0", "1", "2", "3", "4", "5", "6", "7", "8", "9"}

\* str.lower()
LowerOf == [c \in Range(Uppercase) |->
               Lowercase[CHOOSE k \in 1..Len(Uppercase) : Uppercase[k] = c]]
lower(text) ==
    [i \in 1..Len(text) |-> IF text[i] \in DOMAIN LowerOf THEN LowerOf[text[i]] ELSE text[i]]

\* the classes \w and \s of the pattern
WordChars == Range(Uppercase) \cup Range(Lowercase) \cup Digits \cup {"_"}
IsWordChar(c) == c \in WordChars
IsSpace(c) == c \in {" ", "\t", "\n"}

\* re.sub(r'[^\w\s]', ' ', text)
re_sub(text) ==
    [i \in 1..Len(text) |-> IF IsWordChar(text[i]) \/ IsSpace(text[i]) THEN text[i] ELSE " "]

\* str.split(): the maximal runs of characters that are not whitespace
RECURSIVE split(_)
split(text) ==
    IF text = <<>> THEN <<>>
    ELSE IF IsSpace(Head(text)) THEN split(Tail(text))
    ELSE LET n == CHOOSE k \in 1..Len(text) :
                      /\ \A j \in 1..k : ~IsSpace(text[j])
                      /\ k = Len(text) \/ IsSpace(text[k + 1])
         IN  <<SubSeq(text, 1, n)>> \o split(SubSeq(text, n + 1, Len(text)))

\* str.isdigit()
isdigit(word) == word # <<>> /\ \A i \in 1..Len(word) : word[i] \in Digits

\* ' '.join(texts)
RECURSIVE join(_)
join(texts) ==
    IF texts = <<>> THEN <<>>
    ELSE IF Len(texts) = 1 THEN texts[1]
    ELSE texts[1] \o <<" ">> \o join(Tail(texts))

\* The stop words of lines 78-87 that have more than two characters and are made
\* of the letters a, b, d, e, h, n, o, t, w (shorter ones never pass len(word) > 2).
stop_words == {<<"t", "h", "e">>, <<"a", "n", "d">>, <<"b", "e", "e", "n">>,
               <<"h", "a", "d">>, <<"d", "o", "e", "s">>, <<"t", "h", "a", "t">>,
               <<"t", "o", "o">>, <<"n", "o", "w">>, <<"w", "h", "o">>,
               <<"h", "o", "w">>, <<"w", "h", "e", "n">>, <<"t", "h", "a", "n">>}

\* Mutation: the stop words are kept.
KeepWord_StopWords(word) == Len(word) > 2 /\ ~isdigit(word)

\* the condition of the filter of lines 90-93
KeepWord(word) == Len(word) > 2 /\ word \notin stop_words /\ ~isdigit(word)

extract_words(text) == SelectSeq(split(re_sub(lower(text))), KeepWord)

\* Counter(words) as the list of its items, in the order of the dict: the order
\* in which the keys were first seen.
RECURSIVE Keys(_)
Keys(words) ==
    IF words = <<>> THEN <<>>
    ELSE LET init == Keys(SubSeq(words, 1, Len(words) - 1))
             word == words[Len(words)]
         IN  IF word \in Range(init) THEN init ELSE Append(init, word)
Counter(words) ==
    LET keys == Keys(words)
    IN  [k \in 1..Len(keys) |->
            <<keys[k], Cardinality({i \in 1..Len(words) : words[i] = keys[k]})>>]

\* Mutation: among equal counts, the item seen last comes first.
SortedInsert_Last(item, items) ==
    LET k == Cardinality({i \in 1..Len(items) : items[i][2] >= item[2]})
    IN  SubSeq(items, 1, k) \o <<item>> \o SubSeq(items, k + 1, Len(items))

\* An item put into a list sorted by descending count, before the items of the
\* same count.
SortedInsert(item, items) ==
    LET k == Cardinality({i \in 1..Len(items) : items[i][2] > item[2]})
    IN  SubSeq(items, 1, k) \o <<item>> \o SubSeq(items, k + 1, Len(items))

\* sorted(items, key=itemgetter(1), reverse=True): a stable sort, the items of
\* the same count keep their order
RECURSIVE SortedByCount(_)
SortedByCount(items) ==
    IF items = <<>> THEN <<>>
    ELSE SortedInsert(Head(items), SortedByCount(Tail(items)))

\* Counter.most_common(n) = heapq.nlargest(n, items, key=itemgetter(1)), which
\* is sorted(items, key=..., reverse=True)[:n]
most_common(counter, n) ==
    LET s == SortedByCount(counter) IN SubSeq(s, 1, Min(n, Len(s)))

\* Mutation: < for >, the events older than the cutoff.
get_messages_in_window_Older(dq, t, minutes_) ==
    LET cutoff == t - minutes_
        Older(msg) == msg.actual_timestamp < cutoff
    IN  SelectSeq(dq, Older)

\* get_messages_in_window(minutes) on the deque dq when datetime.now() is t
get_messages_in_window(dq, t, minutes_) ==
    LET cutoff == t - minutes_
        Recent(msg) == InWindow(msg, cutoff)
    IN  SelectSeq(dq, Recent)

get_top_words(dq, t, minutes_, top_n) ==
    LET messages_in_window == get_messages_in_window(dq, t, minutes_)
        all_text == join([i \in 1..Len(messages_in_window) |->
                             Get(messages_in_window[i], "full_text", <<>>)])
        words == extract_words(all_text)
    IN  IF messages_in_window = <<>> THEN <<>>
        ELSE most_common(Counter(words), top_n)

get_sentiment_stats(dq, t, minutes_) ==
    LET messages_in_window == get_messages_in_window(dq, t, minutes_)
        sentiments == [i \in 1..Len(messages_in_window) |->
                          Get(messages_in_window[i], "sentiment", "Neutral")]
        sentiment_counts(label) ==
            Cardinality({i \in 1..Len(sentiments) : sentiments[i] = label})
    IN  IF messages_in_window = <<>> THEN NoStats
        ELSE [positive |-> sentiment_counts("Positive"),
              negative |-> sentiment_counts("Negative"),
              neutral  |-> sentiment_counts("Neutral"),
              total    |-> Len(messages_in_window)]

\* a / b of two numbers, as a fraction: a ZeroDivisionError when b is 0
Divide(a, b) == [raised |-> b = 0, num |-> a, den |-> b]

\* Mutation: no guard before the division.
get_message_rate_Unguarded(dq, t, minutes_) ==
    Divide(Len(get_messages_in_window(dq, t, minutes_)), minutes_)

get_message_rate(dq, t, minutes_) ==
    LET messages_in_window == get_messages_in_window(dq, t, minutes_)
    IN  IF messages_in_window = <<>> \/ minutes_ = 0 THEN NoRate
        ELSE Divide(Len(messages_in_window), minutes_)

\* The message_data dicts a caller passes to add_message: texts with capitals,
\* punctuation, a stop word, a short word and a number; the three labels, a
\* label that is none of them, a dict without label and a dict without text.
ThePie == <<"T", "h", "e", " ", "P", "i", "e", "!">>
OkPieTea == <<"o", "k", " ", "1", "2", "3", " ", "p", "i", "e", " ", "t", "e", "a">>
TeaTea == <<"t", "e", "a", ",", "t", "e", "a">>
Tea == <<"t", "e", "a">>
Messages ==
    {[full_text |-> ThePie, sentiment |-> "Positive"],
     [full_text |-> OkPieTea, sentiment |-> "Negative"],
     [full_text |-> TeaTea],
     [full_text |-> Tea, sentiment |-> "Mixed"],
     [sentiment |-> "Neutral"]}
\* The top_n arguments; 5 is the default and what index() passes.
TopNs == {0, 1, 5}

\* message_data['actual_timestamp'] = datetime.now()
Stamped(message_data, t) ==
    [k \in DOMAIN message_data \cup {"actual_timestamp"} |->
        IF k = "actual_timestamp" THEN t ELSE message_data[k]]

\* window_analyzer.add_message(message_data), called directly
AddCall ==
    /\ adds < MaxAdds
    /\ \E message_data \in Messages :
          all_messages' = DequeAppend(all_messages, Stamped(message_data, now))
    /\ deque_state' = DequeStateAfter(all_messages, deque_state)
    /\ adds' = adds + 1
    /\ answer' = NoAnswer
    /\ UNCHANGED <<now, status_message, total_reviews, reviews, stored, loopVars,
                   envVars, pullVars, last_dropped, readerVars>>

WindowCall ==
    /\ \E m \in 0..MaxWindow :
          answer' = [NoAnswer EXCEPT !.op = "window", !.minutes = m, !.at = now,
                        !.window = get_messages_in_window(all_messages, now, m)]
    /\ UNCHANGED <<now, adds, pollerVars, readerVars>>

TopWordsCall ==
    /\ \E m \in 0..MaxWindow, n \in TopNs :
          answer' = [NoAnswer EXCEPT !.op = "top", !.minutes = m, !.top_n = n,
                        !.at = now, !.top = get_top_words(all_messages, now, m, n)]
    /\ UNCHANGED <<now, adds, pollerVars, readerVars>>

StatsCall ==
    /\ \E m \in 0..MaxWindow :
          answer' = [NoAnswer EXCEPT !.op = "stats", !.minutes = m, !.at = now,
                        !.stats = get_sentiment_stats(all_messages, now, m),
                        !.before = IF answer.op = "stats" /\ answer.minutes = m
                                   THEN [asked |-> TRUE, at |-> answer.at,
                                         stats |-> answer.stats]
                                   ELSE NoBefore]
    /\ UNCHANGED <<now, adds, pollerVars, readerVars>>

RateCall ==
    /\ \E m \in 0..MaxWindow :
          answer' = [NoAnswer EXCEPT !.op = "rate", !.minutes = m, !.at = now,
                        !.rate = get_message_rate(all_messages, now, m)]
    /\ UNCHANGED <<now, adds, pollerVars, readerVars>>

\* ------------------------------------------------------ specifications
Poller ==
    \/ Startup
    \/ CycleStart
    \/ PullError
    \/ Pull
    \/ DropRecord
    \/ AppendReview
    \/ AddMessage
    \/ CountReview
    \/ SetStatus
    \/ EndCycle

Next == Poller

\* The polling thread alone, against any stream.
Spec == Init /\ [][Next]_vars

NextServe ==
    \/ Startup
    \/ CycleStart
    \/ Pull
    \/ AppendReview
    \/ AddMessage
    \/ CountReview
    \/ SetStatus
    \/ EndCycle
    \/ Tick
    \/ Request
    \/ ScanNext
    \/ ReadGlobals
    \/ Return

\* The polling thread against a stream of well-formed reviews, the clock and a
\* request thread.
SpecServe == InitServe /\ [][NextServe]_vars

NextQuery ==
    \/ AddCall
    \/ Tick
    \/ WindowCall
    \/ TopWordsCall
    \/ StatsCall
    \/ RateCall

\* The analyzer alone: a caller that adds messages and calls the query methods
\* while the clock runs.
SpecQuery == Init /\ [][NextQuery]_vars

NextSlow ==
    \/ Startup
    \/ CycleStart
    \/ PullCall
    \/ PullReturn
    \/ AppendReview
    \/ AddMessage
    \/ CountReview
    \/ SetStatus
    \/ EndCycle

\* The polling thread with get_records calls that take time to return.
SpecSlow == InitSlow /\ [][NextSlow]_vars

\* ------------------------------------------------------------- claims
\* The polling thread is inside the record loop of a response.
Processing == pc \in {"records", "add", "count", "status"}
\* The polling thread is inside a polling cycle.
InCycle == pc = "shards" \/ Processing
TodoShards == {todo[i][1] : i \in 1..Len(todo)}

\* C1: every valid record contained in a successful response is ingested
\* (appended to the history and the store, and counted) once the response has
\* been processed, whatever next iterator the response carries.
NoRecordLost ==
    ~Processing =>
        /\ delivered \subseteq Range(reviews)
        /\ delivered \subseteq Range(stored)
        /\ total_reviews >= Cardinality(delivered)

\* C2: after a get_records call on a shard raised, the shard is still in the
\* active set with the iterator the call used, the loop has not ended, the
\* coming calls use the iterators the dict holds, and a cycle ends only when
\* every shard that was active at its start has been called, so that the
\* other shards are polled in the same cycle.
TransientErrorContained ==
    /\ \A s \in Shards :
          last_pull[s].outcome = "error" =>
              /\ s \in DOMAIN shard_iterators
              /\ shard_iterators[s] = last_pull[s].iterator
              /\ pc \notin {"done", "returned"}
    /\ \A i \in 1..Len(todo) :
          /\ todo[i][1] \in DOMAIN shard_iterators
          /\ todo[i][2] = shard_iterators[todo[i][1]]
    /\ InCycle => pulled \cup TodoShards = cycle_start
    /\ pc = "loop" => cycle_start \subseteq pulled

\* A call on the first shard raised and the second shard was still called in
\* the same cycle.
ErrorThenOtherShardPolled ==
    /\ pc = "shards"
    /\ todo = <<>>
    /\ pulled = Shards
    /\ last_pull[ShardIds[1]].outcome = "error"
    /\ last_pull[ShardIds[2]].outcome = "records"

\* C3: a shard whose response carried no next iterator is out of the active
\* set and is not called again; a cycle starts only with an active shard;
\* when the loop has ended the status is "All shards exhausted", no shard is
\* active, and from then on the status, the calls and the position of the
\* thread stay as they are.
ExhaustionIsTerminal ==
    /\ [](\A s \in Shards :
            last_pull[s].outcome = "exhausted" =>
                /\ s \notin DOMAIN shard_iterators
                /\ s \notin TodoShards)
    /\ [](pc = "loop" => DOMAIN shard_iterators # {})
    /\ [](pc = "done" => /\ status_message = Exhausted
                         /\ DOMAIN shard_iterators = {}
                         /\ todo = <<>>)
    /\ [][/\ \A s \in Shards :
                last_pull[s].outcome = "exhausted" =>
                    /\ last_pull'[s] = last_pull[s]
                    /\ (s \in pulled' => s \in pulled)
          /\ pc = "done" =>
                /\ pc' = "done"
                /\ status_message' = status_message
                /\ last_pull' = last_pull
                /\ pulled' = pulled]_vars

\* Both shards ended and the loop stopped.
AllShardsExhausted ==
    /\ pc = "done"
    /\ status_message = Exhausted
    /\ \A s \in Shards : last_pull[s].outcome = "exhausted"

\* C4: a response with no record and a next iterator leaves the status as it
\* is and the loop in its cycle, and the shard stays in the active set with
\* the returned iterator, which differs from the one used; a cycle calls every
\* shard of the active set (TransientErrorContained), so the shard is called
\* again with the new iterator.
EmptyPollKeepsShard ==
    /\ [](\A s \in Shards :
            last_pull[s].outcome = "empty" =>
                /\ s \in DOMAIN shard_iterators
                /\ shard_iterators[s] = last_pull[s].next
                /\ last_pull[s].next # last_pull[s].iterator
                /\ last_pull[s].next # None)
    /\ [](pc = "loop" => cycle_start \subseteq pulled)
    /\ [][(/\ pc = "shards"
           /\ todo # <<>>
           /\ last_pull'[Head(todo)[1]].outcome = "empty") =>
              /\ status_message' = status_message
              /\ pc' = "shards"
              /\ Head(todo)[1] \in DOMAIN shard_iterators'
          ]_vars
    /\ [][pc = "loop" => cycle_start' = DOMAIN shard_iterators]_vars

\* A shard answered with no record and is then called with the new iterator:
\* its last call used an iterator other than the first one, at position 0.
EmptyPollThenPolledAgain ==
    \E s \in Shards :
        /\ last_pull[s].outcome = "empty"
        /\ last_pull[s].iterator = NextIterator(TrimHorizon, 0)
        /\ s \in pulled

\* C5: startup fails when the credential check fails, describe_stream raises
\* or reports a status other than ACTIVE, the stream has no shard, or no
\* shard iterator is obtained.
StartupFails(in) ==
    \/ ~in.creds
    \/ in.describe # "ACTIVE"
    \/ in.shards = <<>>
    \/ Range(in.shards) \cap in.got = {}
FailureStatuses ==
    {CredentialsError, StreamNotFound, DescribeError, CriticalError, NoShards,
     NoIterators} \cup {StreamStatus(d) : d \in DescribeAnswers}
\* C5: after a failed startup the status names the failure, no get_records
\* call is ever made, the store and the history are empty, the total is 0 and
\* every query that completes returns no event.
FailedStartupPollsNothing ==
    (pc # "start" /\ StartupFails(startup_in)) =>
        /\ pc = "returned"
        /\ status_message \in FailureStatuses
        /\ \A s \in Shards : last_pull[s] = NoPull
        /\ shard_iterators = EmptyDict
        /\ all_messages = <<>>
        /\ reviews = <<>>
        /\ total_reviews = 0
        /\ rpc \in {"scanned", "done"} => result = <<>>
        /\ rpc = "done" => seen.total = 0 /\ seen.nreviews = 0
        /\ rpc # "error"

\* The stream was not ACTIVE and a request has been answered.
FailedStartupQueried ==
    /\ pc = "returned"
    /\ startup_in.creds
    /\ startup_in.describe = "CREATING"
    /\ status_message = StreamStatus("CREATING")
    /\ rpc = "done"

\* C6: the step that handles a record that is not JSON or has no text changes
\* neither the store, the history, the total nor the status, and leaves the
\* records that follow it in the batch to be processed; every valid record
\* given to the record loop is in the history and counted once its batch is
\* done.
BadRecordDropped ==
    /\ [](~Processing =>
            /\ accepted \subseteq Range(reviews)
            /\ accepted \subseteq Range(stored)
            /\ total_reviews = Cardinality(accepted))
    /\ [][(pc = "records" /\ ~IsValid(Head(records))) =>
              /\ UNCHANGED <<reviews, all_messages, deque_state, stored,
                             total_reviews, status_message>>
              /\ UNCHANGED <<shard_iterators, todo>>
              /\ records' = Tail(records)
              /\ pc' \in {"records", "shards"}
          ]_vars

\* The first record of a response of two was dropped and the second one was
\* ingested.
DroppedThenNextIngested ==
    /\ last_dropped # NoRecord
    /\ last_dropped[2] = 1
    /\ last_pull[last_dropped[1]].iterator = TrimHorizon
    /\ last_pull[last_dropped[1]].next = NextIterator(TrimHorizon, 2)
    /\ <<last_dropped[1], 2>> \in Range(reviews)
    /\ ~Processing
    /\ total_reviews = 1

\* C7: a request's scan of the store never ends in an error.
QueryNeverFails == rpc # "error"

\* C8: a request whose reads all fall within one ingestion (or between two)
\* sees the store, the history and the total of one and the same state:
\* the number of events put in the store, the length of the history and the
\* total agree.
NoTornRead ==
    (rpc = "done" /\ seen.epoch0 = seen.epoch1) =>
        /\ seen.nstored = seen.total
        /\ seen.nreviews = seen.total

\* C9: the store holds at most Capacity events, and they are the most recent
\* min(Capacity, n) of the n events ingested, oldest first.
LastOf(seq, n) == SubSeq(seq, Len(seq) - n + 1, Len(seq))
StoreIds == [i \in 1..Len(all_messages) |-> all_messages[i].id]
StoreHoldsMostRecent ==
    /\ Len(all_messages) <= Capacity
    /\ StoreIds = LastOf(stored, Min(Capacity, Len(stored)))

\* More events than the store holds were ingested.
StoreOverflowed ==
    /\ Len(stored) > Capacity
    /\ Len(all_messages) = Capacity

\* The scan of the request has ended and the store is as it was scanned.
ScanComplete == rpc = "scanned" /\ deque_state = it_state

\* C10 as stated: window(minutes) is the events of the store stamped within
\* the closed interval [now - minutes, now].
WindowClosedInterval ==
    ScanComplete =>
        result = SelectSeq(all_messages,
                     LAMBDA e : /\ e.actual_timestamp >= seen.at - minutes
                                /\ e.actual_timestamp <= seen.at)

\* C10 as amended: window(minutes) is the events of the store stamped within
\* (now - minutes, now], an event stamped exactly now - minutes left out; it
\* is the empty sequence when no event is.
WindowHalfOpenInterval ==
    ScanComplete =>
        result = SelectSeq(all_messages,
                     LAMBDA e : /\ e.actual_timestamp > seen.at - minutes
                                /\ e.actual_timestamp <= seen.at)

\* A window that takes the newer of two events and leaves out the one stamped
\* exactly now - minutes.
WindowAtBoundary ==
    /\ ScanComplete
    /\ minutes > 0
    /\ Len(result) >= 1
    /\ \E i \in 1..Len(all_messages) :
          all_messages[i].actual_timestamp = seen.at - minutes

\* C11: the events of the store are in non-decreasing order of their arrival
\* timestamps, and the result of a window query is a suffix of the store, in
\* store order.
StoreInTimeOrder ==
    /\ \A i \in 1..(Len(all_messages) - 1) :
          all_messages[i].actual_timestamp <= all_messages[i + 1].actual_timestamp
    /\ ScanComplete =>
          \E k \in 0..Len(all_messages) :
              result = SubSeq(all_messages, k + 1, Len(all_messages))

\* A window that is a proper, non-empty suffix of a store of events stamped
\* at different instants.
WindowIsProperSuffix ==
    /\ ScanComplete
    /\ Len(all_messages) = 2
    /\ all_messages[1].actual_timestamp < all_messages[2].actual_timestamp
    /\ result = <<all_messages[2]>>

\* window(m) of the store at this instant.
Window(m) == get_messages_in_window(all_messages, now, m)

\* C12: at one instant and for one store, the window of a shorter duration
\* holds only events of the window of any longer duration.
WindowMonotonic ==
    \A d1 \in 0..MaxWindow, d2 \in 0..MaxWindow :
        d1 < d2 =>
            /\ Range(Window(d1)) \subseteq Range(Window(d2))
            /\ Len(Window(d1)) <= Len(Window(d2))
            /\ Window(d1) = SubSeq(Window(d2), Len(Window(d2)) - Len(Window(d1)) + 1,
                                   Len(Window(d2)))

\* A window query answered with a non-empty window that a longer duration
\* makes larger.
WindowGrowsWithDuration ==
    /\ answer.op = "window"
    /\ answer.at = now
    /\ answer.minutes = 1
    /\ answer.window = Window(1)
    /\ Len(Window(1)) = 1
    /\ Len(Window(2)) = 2

\* C13: the three counts of sentimentCounts(d) add up to its total, the number
\* of events of window(d): an event whose label is missing or is none of the
\* three labels is counted as Neutral.
CountsAddUpToTotal ==
    answer.op = "stats" =>
        /\ answer.stats.total = Len(get_messages_in_window(all_messages, answer.at,
                                                           answer.minutes))
        /\ answer.stats.positive + answer.stats.negative + answer.stats.neutral
              = answer.stats.total

\* The tokens of the concatenated text of the window a top-words call saw, before
\* any token is discarded.
AnswerTokens ==
    LET w == get_messages_in_window(all_messages, answer.at, answer.minutes)
    IN  split(re_sub(lower(join([i \in 1..Len(w) |-> Get(w[i], "full_text", <<>>)]))))
Occurrences(tokens, word) == Cardinality({j \in 1..Len(tokens) : tokens[j] = word})
FirstSeen(tokens, word) ==
    CHOOSE j \in 1..Len(tokens) :
        tokens[j] = word /\ \A k \in 1..(j - 1) : tokens[k] # word

\* C14: topTerms(d, n) has at most n entries, each with a count of at least 1
\* that is the number of occurrences of the term among the tokens, in
\* descending order of count; no entry is a stop word, a token of at most two
\* characters or a number; an empty window gives the empty sequence.
TopTermsWellFormed ==
    answer.op = "top" =>
        LET top == answer.top
            tokens == AnswerTokens
        IN  /\ Len(top) <= answer.top_n
            /\ \A i \in 1..Len(top) :
                  /\ top[i][2] >= 1
                  /\ top[i][2] = Occurrences(tokens, top[i][1])
                  /\ top[i][1] \notin stop_words
                  /\ Len(top[i][1]) > 2
                  /\ \E k \in 1..Len(top[i][1]) : top[i][1][k] \notin Digits
            /\ \A i \in 1..Len(top), j \in 1..Len(top) :
                  i < j => top[i][2] >= top[j][2] /\ top[i][1] # top[j][1]
            /\ get_messages_in_window(all_messages, answer.at, answer.minutes) = <<>>
                  => top = <<>>

\* The top words of a window whose text has a stop word, a short word and a
\* number, and a word written with and without a capital.
TopTermsOfMixedText ==
    /\ answer.op = "top"
    /\ answer.top = << <<<<"p", "i", "e">>, 2>>, <<<<"t", "e", "a">>, 1>> >>
    /\ {<<"t", "h", "e">>, <<"o", "k">>, <<"1", "2", "3">>} \subseteq Range(AnswerTokens)

\* C15: terms of the same count are listed in the order of their first
\* occurrence in the concatenated text of the window, and a term left out by
\* the cut at n is seen later than every listed term of the same count.
TiesInFirstSeenOrder ==
    answer.op = "top" =>
        LET top == answer.top
            tokens == AnswerTokens
            listed == {top[i][1] : i \in 1..Len(top)}
            left_out == {tokens[j] : j \in {k \in 1..Len(tokens) : KeepWord(tokens[k])}}
                            \ listed
        IN  /\ \A i \in 1..Len(top), j \in 1..Len(top) :
                  (i < j /\ top[i][2] = top[j][2]) =>
                      FirstSeen(tokens, top[i][1]) < FirstSeen(tokens, top[j][1])
            /\ \A word \in left_out, i \in 1..Len(top) :
                  /\ Occurrences(tokens, word) <= top[i][2]
                  /\ Occurrences(tokens, word) = top[i][2] =>
                        FirstSeen(tokens, top[i][1]) < FirstSeen(tokens, word)

\* Two terms of the same count, the one seen first being the later one in the
\* alphabet, and the cut at 1 keeping it.
TieCutAtOne ==
    /\ answer.op = "top"
    /\ answer.top_n = 1
    /\ answer.top = << <<<<"t", "e", "a">>, 1>> >>
    /\ Occurrences(AnswerTokens, <<"p", "i", "e">>) = 1

\* C16: rate(d) is the number of events of window(d) divided by d when d > 0
\* and the window is not empty, it is 0 when d = 0 or the window is empty, and
\* no call with d >= 0 divides by zero.
RateIsCountPerMinute ==
    answer.op = "rate" =>
        LET n == Len(get_messages_in_window(all_messages, answer.at, answer.minutes))
            d == answer.minutes
        IN  /\ ~answer.rate.raised
            /\ answer.rate.den # 0
            /\ (d > 0 /\ n > 0) => answer.rate.num * d = n * answer.rate.den
            /\ (d = 0 \/ n = 0) => answer.rate.num = 0

\* The rate over a window of two minutes that holds two events.
RateAsked ==
    /\ answer.op = "rate"
    /\ answer.minutes = 2
    /\ answer.rate = [raised |-> FALSE, num |-> 2, den |-> 2]

\* get_sentiment_stats was called twice in a row with the same argument, and
\* add_message was not called in between.
StatsAskedTwice == answer.op = "stats" /\ answer.before.asked

\* C17 as stated: two calls of sentimentCounts(d) with no ingest between them
\* return the same counts.
StatsRepeatable ==
    StatsAskedTwice => answer.stats = answer.before.stats

\* C17: two calls of sentimentCounts(d) with no ingest between them return the
\* same counts when no stored event's timestamp lies between the cutoffs of
\* the two calls, and the second call never returns a greater count.
StatsRepeatableWhileNoneExpires ==
    StatsAskedTwice =>
        LET cutoff0 == answer.before.at - answer.minutes
            cutoff1 == answer.at - answer.minutes
            expired == {i \in 1..Len(all_messages) :
                           /\ all_messages[i].actual_timestamp > cutoff0
                           /\ all_messages[i].actual_timestamp <= cutoff1}
        IN  /\ answer.stats.positive <= answer.before.stats.positive
            /\ answer.stats.negative <= answer.before.stats.negative
            /\ answer.stats.neutral <= answer.before.stats.neutral
            /\ answer.stats.total <= answer.before.stats.total
            /\ expired = {} => answer.stats = answer.before.stats

\* The second call comes a minute after the first and returns the same counts
\* of a window that holds events.
StatsRepeatedLater ==
    /\ StatsAskedTwice
    /\ answer.at > answer.before.at
    /\ answer.stats.total >= 1
    /\ answer.stats = answer.before.stats

\* The polling thread calls get_records for the shard.
PullCallOf(shard_id) == PullCall /\ Head(todo)[1] = shard_id

\* C18: while a get_records call on one shard has not returned, the calls on
\* the other shards of the cycle can be made.
PullsIndependent ==
    pc = "waiting" =>
        \A shard_id \in TodoShards \ {Head(todo)[1]} : ENABLED PullCallOf(shard_id)

\* The startup has succeeded and no shard has been polled yet.
JustConnected ==
    /\ pc = "loop"
    /\ status_message = Connected
    /\ \A shard_id \in Shards : last_pull[shard_id].outcome = "never"

\* C19: when the startup has succeeded and the status is the connected one,
\* every shard that describe_stream listed has its iterator in the active set.
EveryShardHasCursor ==
    JustConnected => DOMAIN shard_iterators = Range(startup_in.shards)

\* The ids of one shard come in the order of their sequence numbers.
SameShardInOrder(ids) ==
    \A i \in 1..Len(ids), j \in 1..Len(ids) :
        (i < j /\ ids[i][1] = ids[j][1]) => ids[i][2] <= ids[j][2]

\* C20: the records of one shard are ingested in the order they have in the
\* shard, in the history and in the store, whatever the interleaving of the
\* shards, the empty polls and the failed calls.
ShardOrderKept ==
    /\ SameShardInOrder(reviews)
    /\ SameShardInOrder(stored)
    /\ SameShardInOrder(StoreIds)

\* Two records of one shard ingested in two cycles, with a record of the other
\* shard between them and a failed call on the other shard after them.
InterleavedShardsIngested ==
    /\ reviews = << <<"shardId-0", 1>>, <<"shardId-1", 1>>, <<"shardId-0", 2>> >>
    /\ stored = reviews
    /\ last_pull["shardId-1"].outcome = "error"

\* A step of the request thread.
RequestStep == rpc' # rpc \/ it_index' # it_index \/ seen' # seen
\* The events of the store after the step, but the last one, were in the store
\* before it, unchanged and in the same order.
StoredEventsKept ==
    \E k \in 0..Len(all_messages) :
        SubSeq(all_messages', 1, Len(all_messages') - 1) =
            SubSeq(all_messages, k + 1, Len(all_messages))

\* C21: a step of a query leaves the store, the history list, the total count
\* and the status as they are; the store changes only when the polling thread
\* adds an event, and the events that were in it stay as they were.
QueriesOnlyRead ==
    [][/\ RequestStep =>
             UNCHANGED <<all_messages, deque_state, reviews, total_reviews, status_message>>
       /\ all_messages' # all_messages =>
             /\ pc = "add"
             /\ UNCHANGED readerVars
             /\ StoredEventsKept]_vars

\* A request that scanned a store of two events stamped at different instants
\* and returned its answer after the polling thread had ingested another one.
QueryServedWhileIngesting ==
    /\ rpc = "done"
    /\ Len(result) >= 1
    /\ Len(stored) > seen.nstored
    /\ Len(all_messages) = 2
    /\ all_messages[1].actual_timestamp < all_messages[2].actual_timestamp

\* No id occurs twice in the list.
NoDuplicates(ids) ==
    \A i \in 1..Len(ids), j \in 1..Len(ids) : ids[i] = ids[j] => i = j

\* C22: no record is ingested twice: no id is appended twice to the history or
\* passed twice to add_message, and the total counts no more than the records
\* delivered; while the records of a response are processed, the shard's
\* iterator is already the next iterator of that response.
IngestedAtMostOnce ==
    /\ NoDuplicates(reviews)
    /\ NoDuplicates(stored)
    /\ NoDuplicates(StoreIds)
    /\ total_reviews <= Cardinality(Range(stored))
    /\ Range(stored) \subseteq delivered
    /\ Processing =>
          LET shard_id == Head(records).shard
          IN  /\ shard_id \in DOMAIN shard_iterators
              /\ shard_iterators[shard_id] = last_pull[shard_id].next
              /\ shard_iterators[shard_id] # last_pull[shard_id].iterator

\* The two records of a shard ingested from two responses, the second pulled
\* with the iterator of the first, while the other shard answered an empty poll.
TwoResponsesIngested ==
    /\ reviews = << <<"shardId-0", 1>>, <<"shardId-0", 2>> >>
    /\ stored = reviews
    /\ total_reviews = 2
    /\ last_pull["shardId-0"].iterator.pos = 1
    /\ last_pull["shardId-1"].outcome = "empty"

\* Between two ingestions the total, the history and the add_message calls
\* agree, and the store holds as many events as its capacity allows.
CountsAgree ==
    ~Ingesting =>
        /\ total_reviews = Len(stored)
        /\ total_reviews = Len(reviews)
        /\ Len(all_messages) = Min(total_reviews, Capacity)

\* C23: whenever the polling thread is not in the middle of a record, the total
\* count is the number of events ingested and the length of the history list
\* and the store holds min(total, capacity) events; the total never decreases.
TotalCountsIngestions ==
    /\ []CountsAgree
    /\ [][total_reviews' >= total_reviews]_vars

\* Three records ingested into a store of capacity two, the thread between two
\* cycles.
ThreeCountedTwoStored ==
    /\ pc = "loop"
    /\ total_reviews = 3
    /\ Len(reviews) = 3
    /\ Len(all_messages) = 2

\* The polling thread is about to call get_records for the shard, and has
\* called it for that shard before.
CalledAgain(shard_id) ==
    /\ pc = "shards"
    /\ todo # <<>>
    /\ Head(todo)[1] = shard_id
    /\ last_pull[shard_id].outcome # "never"

\* In a cycle, the shards called and the shards still to call are the shards
\* that were active when the cycle began, each of them once.
OncePerCycle ==
    /\ InCycle =>
          /\ pulled \cup TodoShards = cycle_start
          /\ pulled \cap TodoShards = {}
          /\ Cardinality(TodoShards) = Len(todo)
          /\ DOMAIN shard_iterators \subseteq cycle_start
    /\ \A shard_id \in Shards :
          CalledAgain(shard_id) =>
              \A other \in DOMAIN shard_iterators \ {shard_id} :
                  since[shard_id][other] = 1

\* A step that takes a shard off the list of the cycle calls get_records for
\* it, for the first time in the cycle.
CallsOnce ==
    (todo # <<>> /\ todo' = Tail(todo)) =>
        /\ Head(todo)[1] \notin pulled
        /\ pulled' = pulled \cup {Head(todo)[1]}
        /\ last_pull'[Head(todo)[1]].iterator = Head(todo)[2]

\* C24: in every polling cycle get_records is called exactly once for each
\* shard that was active when the cycle began, between two calls for one shard
\* there is exactly one call for every other active shard, and after the
\* startup no shard joins the active set.
EachShardOncePerCycle ==
    /\ []OncePerCycle
    /\ [][CallsOnce]_vars
    /\ [][pc # "start" => DOMAIN shard_iterators' \subseteq DOMAIN shard_iterators]_vars

\* The second cycle has called the first shard again, after one call for the
\* second shard, and is about to call the second shard again.
SecondCycleUnderWay ==
    /\ CalledAgain("shardId-1")
    /\ pulled = {"shardId-0"}
    /\ cycle_start = Shards
    /\ since["shardId-1"]["shardId-0"] = 1
    /\ since["shardId-0"]["shardId-1"] = 0

====
